---- MODULE Spec2Model ----
(***************************************************************************)
(* Model of the montblanc GPU pipeline nodes:                              *)
(*   - RimeBSqrt (impl/biro/v4/gpu/RimeBSqrt.py): kernel template,         *)
(*     initialise / get_launch_params / execute / shutdown and the         *)
(*     rime_jones_B_sqrt_impl device kernel;                               *)
(*   - SersicChiSquaredGradient (impl/rime/v5/gpu): pre_execution and      *)
(*     execute, with the device's stream queues.                           *)
(***************************************************************************)
EXTENDS Integers, Sequences, FiniteSets

VARIABLES
    FLOAT_PARAMS,    \* module-level dict, RimeBSqrt.py:29
    DOUBLE_PARAMS,   \* module-level dict, RimeBSqrt.py:38
    slvr,            \* the solver handed to the node's lifecycle calls
    polchans,        \* RimeBSqrt.polchans
    mod,             \* RimeBSqrt.mod      (compiled module, or Absent)
    kernel,          \* RimeBSqrt.kernel   (entry point handle, or Absent)
    launch_params,   \* RimeBSqrt.launch_params (or Absent)
    raised,          \* exception the last call ended with, or "none"
    last_call,       \* name of the last lifecycle call
    calls,           \* kernel calls made by the last lifecycle call
    writes,          \* global-memory writes of the last B_sqrt launch
    threads,         \* per-thread program counter of a running launch
    shared,          \* per-block __shared__ freq[] of a running launch
    B_sqrt,          \* device output buffer of the running launch
    pending,         \* per stream: the gradient node's operations enqueued
                     \* on the device and not yet executed, oldest first
    completed,       \* the gradient node's operations the device has
                     \* executed, in the order of execution
    op_ph,           \* tensorflow_mock_analyser: the placeholders table
    snap             \* observer: a recorded earlier result

vars == <<last_call, raised, FLOAT_PARAMS, DOUBLE_PARAMS, slvr, polchans,
          mod, kernel, launch_params, calls, writes, threads, shared,
          B_sqrt, pending, completed, op_ph, snap>>

----------------------------------------------------------------------------
(* Bounds of the explored inputs *)

MaxNtime == 2
WideNchan == 9
WideNtime == 33
WideNsrc == 2
MaxShapeDim == 3
MaxKernelThreads == 11
MaxSince == 2
MaxShapeRank == 2
MaxOps == 3

(* An attribute not set on the object *)
Absent == [absent |-> TRUE]

(* Values slvr.is_float() returns *)
IsFloatValues == {TRUE, FALSE}

(* Python truthiness of the value, as in `X if slvr.is_float() else Y` *)
Truthy(v) == v = TRUE

(* `slvr.is_float() is True` *)
IsTrue(v) == v = TRUE

----------------------------------------------------------------------------
(* Kernel parameter presets *)

(* A single-precision preset whose x tile is no multiple of four *)
FloatPresetOddTile ==
    [BLOCKDIMX |-> 30, BLOCKDIMY |-> 32, BLOCKDIMZ |-> 1, maxregs |-> 32]

FloatPreset ==
    [BLOCKDIMX |-> 32, BLOCKDIMY |-> 32, BLOCKDIMZ |-> 1, maxregs |-> 32]

DoublePreset ==
    [BLOCKDIMX |-> 32, BLOCKDIMY |-> 16, BLOCKDIMZ |-> 1, maxregs |-> 48]

BlockKeys == {"BLOCKDIMX", "BLOCKDIMY", "BLOCKDIMZ"}

DimKeys == {"na", "nbl", "nchan", "ntime", "nsrc"}

(* dict.update: keys of `other` overwrite or extend D *)
DictUpdate(D, other) ==
    [k \in (DOMAIN D) \cup (DOMAIN other) |->
        IF k \in DOMAIN other THEN other[k] ELSE D[k]]

(* D[k] = v *)
DictSet(D, k, v) == [D EXCEPT ![k] = v]

(* {} *)
EmptyDict == <<>>

(* D[k] = v for a key D may not hold yet *)
DictPut(D, k, v) == [j \in (DOMAIN D) \cup {k} |-> IF j = k THEN v ELSE D[j]]

(* D without the key k, as D.pop(k) leaves it *)
DictPop(D, k) == [j \in (DOMAIN D) \ {k} |-> D[j]]

(* D.get(k, default) *)
DictGet(D, k, default) == IF k \in DOMAIN D THEN D[k] ELSE default

----------------------------------------------------------------------------
(* Kernel source text: string.Template rendering and the #define constants *)

Digit == <<"0", "1", "2", "3", "4", "5", "6", "7", "8", "9">>

(* str(n) of a non-negative int: its decimal digits, most significant first *)
RECURSIVE Str(_)
Str(n) ==
    IF n < 10 THEN <<Digit[n + 1]>>
    ELSE Str(n \div 10) \o <<Digit[(n % 10) + 1]>>

DigitValue(c) == (CHOOSE i \in 1..10 : Digit[i] = c) - 1

(* The integer a C preprocessor reads from a sequence of decimal digits *)
RECURSIVE ParseInt(_)
ParseInt(ds) ==
    IF Len(ds) = 0 THEN 0
    ELSE 10 * ParseInt(SubSeq(ds, 1, Len(ds) - 1)) + DigitValue(ds[Len(ds)])

Lit(text) == <<"lit", text>>
Var(key) == <<"var", key>>

(* KERNEL_TEMPLATE with NBL rendered from the wrong placeholder *)
KERNEL_TEMPLATE_WrongSlot ==
    << [name |-> "NA",        body |-> <<Lit("("), Var("na"), Lit(")")>>],
       [name |-> "NBL",       body |-> <<Lit("("), Var("na"), Lit(")")>>],
       [name |-> "NCHAN",     body |-> <<Lit("("), Var("nchan"), Lit(")")>>],
       [name |-> "NTIME",     body |-> <<Lit("("), Var("ntime"), Lit(")")>>],
       [name |-> "NSRC",      body |-> <<Lit("("), Var("nsrc"), Lit(")")>>],
       [name |-> "NPOL",      body |-> <<Lit("("), Lit("4"), Lit(")")>>],
       [name |-> "NPOLCHAN",  body |-> <<Lit("("), Lit("NPOL*NCHAN"), Lit(")")>>],
       [name |-> "BLOCKDIMX", body |-> <<Lit("("), Var("BLOCKDIMX"), Lit(")")>>],
       [name |-> "BLOCKDIMY", body |-> <<Lit("("), Var("BLOCKDIMY"), Lit(")")>>],
       [name |-> "BLOCKDIMZ", body |-> <<Lit("("), Var("BLOCKDIMZ"), Lit(")")>>] >>

(* The #define lines of KERNEL_TEMPLATE; the device code that follows them *)
(* holds no placeholder and is the same text in every rendering.           *)
KERNEL_TEMPLATE ==
    << [name |-> "NA",        body |-> <<Lit("("), Var("na"), Lit(")")>>],
       [name |-> "NBL",       body |-> <<Lit("("), Var("nbl"), Lit(")")>>],
       [name |-> "NCHAN",     body |-> <<Lit("("), Var("nchan"), Lit(")")>>],
       [name |-> "NTIME",     body |-> <<Lit("("), Var("ntime"), Lit(")")>>],
       [name |-> "NSRC",      body |-> <<Lit("("), Var("nsrc"), Lit(")")>>],
       [name |-> "NPOL",      body |-> <<Lit("("), Lit("4"), Lit(")")>>],
       [name |-> "NPOLCHAN",  body |-> <<Lit("("), Lit("NPOL*NCHAN"), Lit(")")>>],
       [name |-> "BLOCKDIMX", body |-> <<Lit("("), Var("BLOCKDIMX"), Lit(")")>>],
       [name |-> "BLOCKDIMY", body |-> <<Lit("("), Var("BLOCKDIMY"), Lit(")")>>],
       [name |-> "BLOCKDIMZ", body |-> <<Lit("("), Var("BLOCKDIMZ"), Lit(")")>>] >>

TemplateVars(T) ==
    {T[i].body[j][2] : <<i, j>> \in
        {p \in (DOMAIN T) \X (1..3) : T[p[1]].body[p[2]][1] = "var"}}

(* Text one template token renders to *)
RenderToken(tok, D) ==
    IF tok[1] = "var" THEN Str(D[tok[2]]) ELSE <<tok[2]>>

RECURSIVE RenderBody(_, _)
RenderBody(toks, D) ==
    IF Len(toks) = 0 THEN <<>>
    ELSE RenderToken(Head(toks), D) \o RenderBody(Tail(toks), D)

(* string.Template.substitute of the dict D raises KeyError for a missing key *)
SubstituteRaises(T, D) == ~(TemplateVars(T) \subseteq DOMAIN D)

(* string.Template.substitute of the dict D: every ${key} replaced by str(D[key]) *)
Substitute(T, D) ==
    [i \in DOMAIN T |-> [name |-> T[i].name, body |-> RenderBody(T[i].body, D)]]

(* The value the compiler gives a #define NAME (digits) of the text *)
DefineValue(text, name) ==
    LET i == CHOOSE j \in DOMAIN text : text[j].name = name
        b == text[i].body
    IN  ParseInt(SubSeq(b, 2, Len(b) - 1))

----------------------------------------------------------------------------
(* Solver interface: what the node uses of the solver object *)

(* slvr.get_properties(): the solver's dimension sizes by name *)
get_properties(s) ==
    [na |-> s.na, nbl |-> s.nbl, nchan |-> s.nchan,
     ntime |-> s.ntime, nsrc |-> s.nsrc]

(* Node.blocks_required(N, threads_per_block): ceiling division *)
blocks_required(N, threads_per_block) ==
    (N + threads_per_block - 1) \div threads_per_block

(* the integer division of blocks_required raises ZeroDivisionError *)
blocks_required_raises(N, threads_per_block) == threads_per_block = 0

----------------------------------------------------------------------------
(* RimeBSqrt.initialise *)

(* SelectPreset that ignores the precision *)
SelectPresetAlwaysFloat(s, FP, DP) == FP

(* The preset dict the precision selects, RimeBSqrt.py:146 *)
SelectPreset(s, FP, DP) == IF Truthy(s.is_float) THEN FP ELSE DP

(* Narrow with the comparison turned round *)
NarrowFlipped(D, key, extent) ==
    IF extent > D[key] THEN DictSet(D, key, extent) ELSE D

(* `if extent < D[key]: D[key] = extent`, RimeBSqrt.py:151-153 *)
Narrow(D, key, extent) ==
    IF extent < D[key] THEN DictSet(D, key, extent) ELSE D

(* The dict D after lines 144-153 *)
KernelParams(s, FP, DP) ==
    LET D0 == get_properties(s)
        D1 == DictUpdate(D0, SelectPreset(s, FP, DP))
        D2 == Narrow(D1, "BLOCKDIMX", 4 * s.nchan)
        D3 == Narrow(D2, "BLOCKDIMY", s.ntime)
    IN  Narrow(D3, "BLOCKDIMZ", s.nsrc)

(* D.update(preset) copies the preset's items into D: narrowing D afterwards *)
(* leaves the module-level preset dict as it was.                           *)
PresetAfterNarrowAliased(preset, D) == [k \in DOMAIN preset |-> D[k]]

PresetAfterNarrow(preset, D) == preset

(* regs, RimeBSqrt.py:155-156 *)
Regs(s, FP, DP) == Str(IF Truthy(s.is_float) THEN FP.maxregs ELSE DP.maxregs)

(* kname when `is True` never holds *)
KernelNameNeverTrue(s) == "rime_jones_B_sqrt_double"

(* kname, RimeBSqrt.py:158-160 *)
KernelName(s) ==
    IF IsTrue(s.is_float) THEN "rime_jones_B_sqrt_float"
    ELSE "rime_jones_B_sqrt_double"

(* SourceModule(kernel_string, options=[..., '-maxrregcount', regs], ...) *)
SourceModule(kernel_string, regs) ==
    [source |-> kernel_string, maxrregcount |-> regs]

(* mod.get_function(kname) *)
get_function(m, kname) == [module |-> m, name |-> kname]

get_launch_params_raises(pc, s, D) ==
    \/ blocks_required_raises(pc, D["BLOCKDIMX"])
    \/ blocks_required_raises(s.ntime, D["BLOCKDIMY"])
    \/ blocks_required_raises(s.nsrc, D["BLOCKDIMZ"])

get_launch_params(pc, s, D) ==
    LET polchans_per_block == D["BLOCKDIMX"]
        times_per_block == D["BLOCKDIMY"]
        srcs_per_block == D["BLOCKDIMZ"]
        polchan_blocks == blocks_required(pc, polchans_per_block)
        time_blocks == blocks_required(s.ntime, times_per_block)
        src_blocks == blocks_required(s.nsrc, srcs_per_block)
    IN  [block |-> <<polchans_per_block, times_per_block, srcs_per_block>>,
         grid |-> <<polchan_blocks, time_blocks, src_blocks>>]

----------------------------------------------------------------------------
(* Device kernel rime_jones_B_sqrt_impl, one thread                        *)
(* A thread is <<blockIdx.x, blockIdx.y, blockIdx.z,                        *)
(*               threadIdx.x, threadIdx.y, threadIdx.z>>.                   *)

(* The preprocessor constants of a rendered kernel text *)
KernelConsts(text) ==
    [NSRC |-> DefineValue(text, "NSRC"),
     NTIME |-> DefineValue(text, "NTIME"),
     NCHAN |-> DefineValue(text, "NCHAN"),
     NPOL |-> DefineValue(text, "NPOL"),
     NPOLCHAN |-> DefineValue(text, "NPOL") * DefineValue(text, "NCHAN"),
     BLOCKDIMX |-> DefineValue(text, "BLOCKDIMX")]

(* All threads of a launch with geometry g = [block, grid] *)
Threads(g) ==
    (0..(g.grid[1] - 1)) \X (0..(g.grid[2] - 1)) \X (0..(g.grid[3] - 1)) \X
    (0..(g.block[1] - 1)) \X (0..(g.block[2] - 1)) \X (0..(g.block[3] - 1))

BlockOf(t) == <<t[1], t[2], t[3]>>

POLCHAN(t, g) == t[1] * g.block[1] + t[4]
TIME(t, g) == t[2] * g.block[2] + t[5]
SRC(t, g) == t[3] * g.block[3] + t[6]

(* threadIdx.x & 0x3 *)
POL(t) == t[4] % 4

(* The range guard without its POLCHAN test *)
OutOfRangeNoPolchan(t, g, c) ==
    SRC(t, g) >= c.NSRC \/ TIME(t, g) >= c.NTIME

(* The range guard that makes a thread return, line 79 *)
OutOfRange(t, g, c) ==
    SRC(t, g) >= c.NSRC \/ TIME(t, g) >= c.NTIME \/ POLCHAN(t, g) >= c.NPOLCHAN

(* threadIdx.y == 0 && threadIdx.z == 0, line 87 *)
LoadsFreq(t) == t[5] = 0 /\ t[6] = 0

(* frequency[POLCHAN >> 2], line 89 *)
FreqLoaded(t, g) == <<"frequency", POLCHAN(t, g) \div 4>>

(* Content of a __shared__ slot no thread has written *)
Unwritten == <<"unwritten", 0>>

(* Output index, line 109 *)
OutIndex(t, g, c) ==
    (SRC(t, g) * c.NTIME + TIME(t, g)) * c.NPOLCHAN + POLCHAN(t, g)

(* B_square_root of lines 95-106 as a term over the cells it is computed from; *)
(* fq is the content of freq[threadIdx.x] the thread reads.                    *)
OutValue(t, g, c, fq) ==
    LET i == SRC(t, g) * c.NTIME + TIME(t, g)
    IN  [freq |-> fq, alpha |-> <<"alpha", i>>,
         stokes |-> <<"stokes", i * c.NPOL + POL(t)>>]

(* freq[threadIdx.x] after the block's barrier: written by the thread of the *)
(* same block and x with threadIdx.y = threadIdx.z = 0, if it passed the guard *)
SharedAfterBarrier(t, g, c) ==
    LET loader == <<t[1], t[2], t[3], t[4], 0, 0>>
    IN  IF OutOfRange(loader, g, c) THEN Unwritten ELSE FreqLoaded(loader, g)

(* The global-memory writes of one whole launch, barrier respected *)
RunKernel(g, c) ==
    {[thread |-> t, idx |-> OutIndex(t, g, c),
      val |-> OutValue(t, g, c, SharedAfterBarrier(t, g, c))] :
        t \in {u \in Threads(g) : ~OutOfRange(u, g, c)}}

----------------------------------------------------------------------------
(* Solvers handed to the nodes *)

Antennas == {[na |-> 2, nbl |-> 1], [na |-> 14, nbl |-> 91]}

SolverSet(antennas, nchans, ntimes, nsrcs) ==
    {[na |-> a.na, nbl |-> a.nbl, nchan |-> c, ntime |-> t, nsrc |-> n,
      is_float |-> f] :
        a \in antennas, c \in nchans, t \in ntimes, n \in nsrcs,
        f \in IsFloatValues}

(* Dimension sets small enough to re-initialise a node many times *)
SmallSolvers ==
    SolverSet({[na |-> 14, nbl |-> 91]}, {1}, 0..MaxNtime, {0, 1})

(* End-to-end scenario 1 *)
Scenario1 ==
    [na |-> 14, nbl |-> 91, nchan |-> 64, ntime |-> 29, nsrc |-> 20,
     is_float |-> TRUE]

(* Dimension sets on both sides of the preset tile sizes *)
WideSolvers ==
    SolverSet(Antennas, 0..WideNchan, 0..WideNtime, 0..WideNsrc)
        \cup {Scenario1}

Streams == {"None", "stream"}

(* Streams handed to the gradient node: none, or one of two CUDA streams *)
GradientStreams == Streams \cup {"other_stream"}

(* Every stream queue of the device empty *)
NoPending == [st \in GradientStreams |-> <<>>]

(* Shapes of slvr.sersic_shape *)
SersicShapes ==
    UNION {[1..r -> 0..MaxShapeDim] : r \in 0..MaxShapeRank}

SersicSolvers == {[sersic_shape |-> sh] : sh \in SersicShapes}

----------------------------------------------------------------------------
(* State after construction of the nodes *)

Call(node, name, solver) == [node |-> node, name |-> name, solver |-> solver]

NodeFresh ==
    /\ FLOAT_PARAMS = FloatPreset
    /\ DOUBLE_PARAMS = DoublePreset
    /\ polchans = Absent
    /\ mod = Absent
    /\ kernel = Absent
    /\ launch_params = Absent
    /\ raised = "none"
    /\ last_call = Call("RimeBSqrt", "__init__", Absent)
    /\ calls = <<>>
    /\ writes = {}
    /\ threads = Absent
    /\ shared = Absent
    /\ B_sqrt = <<>>
    /\ pending = NoPending
    /\ completed = <<>>
    /\ op_ph = EmptyDict
    /\ snap = Absent

Init == slvr \in SmallSolvers /\ NodeFresh

queues == <<pending, completed>>
device == <<threads, shared, B_sqrt, queues, snap>>
presets == <<FLOAT_PARAMS, DOUBLE_PARAMS>>
node == <<polchans, mod, kernel, launch_params>>

(* Observer bookkeeping: one more call was made since the snapshot *)
Later(sn) ==
    IF sn = Absent THEN sn
    ELSE [sn EXCEPT !.since = IF @ < MaxSince THEN @ + 1 ELSE @]

----------------------------------------------------------------------------
(* RimeBSqrt lifecycle *)

(* initialise(solver, stream); `compiles` is the device compiler's verdict *)
Initialise(s, compiles) ==
    LET D == KernelParams(s, FLOAT_PARAMS, DOUBLE_PARAMS)
        regs == Regs(s, FLOAT_PARAMS, DOUBLE_PARAMS)
        kname == KernelName(s)
        pc == 4 * s.nchan
        m == SourceModule(Substitute(KERNEL_TEMPLATE, D), regs)
    IN  /\ slvr' = s
        /\ polchans' = pc
        /\ FLOAT_PARAMS' = IF Truthy(s.is_float)
                           THEN PresetAfterNarrow(FLOAT_PARAMS, D)
                           ELSE FLOAT_PARAMS
        /\ DOUBLE_PARAMS' = IF Truthy(s.is_float)
                            THEN DOUBLE_PARAMS
                            ELSE PresetAfterNarrow(DOUBLE_PARAMS, D)
        /\ last_call' = Call("RimeBSqrt", "initialise", s)
        /\ calls' = <<>>
        /\ writes' = {}
        /\ IF SubstituteRaises(KERNEL_TEMPLATE, D)
           THEN raised' = "KeyError"
                /\ UNCHANGED <<mod, kernel, launch_params>>
           ELSE IF ~compiles
           THEN raised' = "CompileError"
                /\ UNCHANGED <<mod, kernel, launch_params>>
           ELSE /\ mod' = m
                /\ kernel' = get_function(m, kname)
                /\ IF get_launch_params_raises(pc, s, D)
                   THEN raised' = "ZeroDivisionError"
                        /\ UNCHANGED launch_params
                   ELSE raised' = "none"
                        /\ launch_params' = get_launch_params(pc, s, D)
        /\ snap' = Later(snap)
        /\ UNCHANGED <<threads, shared, B_sqrt, queues, op_ph>>

(* A shutdown that drops the compiled kernel *)
shutdown_releasing ==
    /\ last_call' = Call("RimeBSqrt", "shutdown", slvr)
    /\ raised' = "none"
    /\ calls' = <<>>
    /\ writes' = {}
    /\ mod' = Absent
    /\ kernel' = Absent
    /\ UNCHANGED <<slvr, presets, polchans, launch_params, device, op_ph>>

(* A lifecycle method whose body is `pass` *)
Pass(name) ==
    /\ last_call' = Call("RimeBSqrt", name, slvr)
    /\ raised' = "none"
    /\ calls' = <<>>
    /\ writes' = {}
    /\ UNCHANGED <<slvr, presets, node, device, op_ph>>

shutdown == Pass("shutdown")
pre_execution == Pass("pre_execution")
post_execution == Pass("post_execution")

Buf(name) == <<"gpuarray", name>>

(* The kernel call of RimeBSqrt.execute, lines 194-197 *)
BSqrtCall(stream) ==
    [kernel |-> kernel,
     args |-> <<Buf("stokes_gpu"), Buf("alpha_gpu"), Buf("frequency_gpu"),
                Buf("B_sqrt_gpu"), <<"scalar", "ref_freq">> >>,
     stream |-> stream,
     launch_params |-> launch_params]

(* execute(solver, stream): the launch and the kernel's run taken as one   *)
(* step; `writes` receives what the launch writes to B_sqrt_gpu.  The      *)
(* thread-by-thread run of the same launch is Launch .. LaunchDone below.  *)
Execute(stream) ==
    /\ last_call' = Call("RimeBSqrt", "execute", slvr)
    /\ IF kernel = Absent \/ launch_params = Absent
       THEN raised' = "AttributeError" /\ calls' = <<>> /\ writes' = {}
       ELSE /\ raised' = "none"
            /\ calls' = <<BSqrtCall(stream)>>
            /\ writes' = RunKernel(launch_params,
                                   KernelConsts(kernel.module.source))
    /\ UNCHANGED <<slvr, presets, node, device, op_ph>>

----------------------------------------------------------------------------
(* SersicChiSquaredGradient: pre_execution, execute and the device queues *)

(* Every operation the node has handed to the device *)
AllOps ==
    {completed[i] : i \in 1..Len(completed)} \cup
    UNION {{pending[st][i] : i \in 1..Len(pending[st])} :
              st \in GradientStreams}

(* Number of operations issued so far; the next one is issued as Issued + 1 *)
Issued == Cardinality(AllOps)

(* self.rime_const_data[0]: device address of the kernel's constant data *)
RimeConstData == <<"devptr", "rime_const_data[0]">>

(* solver.const_data().ndary(): the solver's host-side constant data *)
ConstData(s) == <<"ndarray", "const_data">>

(* super(...).pre_execution(solver, stream), line 36: hands nothing to the *)
(* device                                                                  *)
SuperPreExecution(s, stream) ==
    [fn |-> "super.pre_execution", args |-> <<s, stream>>]

(* The upload with the stream argument left out *)
UploadOpNoStream(s, stream, seq) ==
    [kind |-> IF stream # "None" THEN "memcpy_htod_async" ELSE "memcpy_htod",
     args |-> <<RimeConstData, ConstData(s)>>,
     stream |-> "None", seq |-> seq]

(* The copy of lines 38-46: memcpy_htod_async(..., stream=stream) when a   *)
(* stream is given, the blocking memcpy_htod otherwise                     *)
UploadOp(s, stream, seq) ==
    IF stream # "None"
    THEN [kind |-> "memcpy_htod_async",
          args |-> <<RimeConstData, ConstData(s)>>,
          stream |-> stream, seq |-> seq]
    ELSE [kind |-> "memcpy_htod",
          args |-> <<RimeConstData, ConstData(s)>>,
          stream |-> "None", seq |-> seq]

(* pre_execution(solver, stream), lines 35-46.  The asynchronous copy is   *)
(* enqueued on its stream; the blocking copy has been executed when the    *)
(* call returns.                                                           *)
SersicPreExecution(s, stream) ==
    /\ Issued < MaxOps
    /\ last_call' = Call("SersicChiSquaredGradient", "pre_execution", s)
    /\ raised' = "none"
    /\ writes' = {}
    /\ LET op == UploadOp(s, stream, Issued + 1)
       IN  /\ calls' = <<SuperPreExecution(s, stream), op>>
           /\ IF op.kind = "memcpy_htod_async"
              THEN /\ pending' = [pending EXCEPT ![op.stream] = Append(@, op)]
                   /\ UNCHANGED completed
              ELSE /\ completed' = Append(completed, op)
                   /\ UNCHANGED pending
    /\ UNCHANGED <<slvr, presets, node, threads, shared, B_sqrt, snap, op_ph>>

(* The device executes the oldest operation of one stream; operations of   *)
(* different streams are not ordered with respect to each other.           *)
DeviceStep(st) ==
    /\ pending[st] # <<>>
    /\ completed' = Append(completed, Head(pending[st]))
    /\ pending' = [pending EXCEPT ![st] = Tail(@)]
    /\ UNCHANGED <<slvr, presets, node, raised, last_call, calls, writes,
                   threads, shared, B_sqrt, snap, op_ph>>

(* np.product of a shape tuple *)
RECURSIVE Product(_)
Product(shape) ==
    IF Len(shape) = 0 THEN 1 ELSE Head(shape) * Product(Tail(shape))

(* np.intp(0) *)
NullPtr == <<"intp", "0">>

(* SersicArg testing the leading dimension only *)
SersicArgFirstDim(s) ==
    IF Len(s.sersic_shape) > 0 /\ s.sersic_shape[1] = 0
    THEN NullPtr ELSE Buf("sersic_shape")

(* sersic, lines 54-55 *)
SersicArg(s) ==
    IF Product(s.sersic_shape) = 0 THEN NullPtr ELSE Buf("sersic_shape")

(* The kernel call of lines 57-62 *)
SersicCall(s, stream) ==
    [kernel |-> "SersicChiSquaredGradient.kernel",
     args |-> <<Buf("uvw"), SersicArg(s), Buf("frequency"), Buf("antenna1"),
                Buf("antenna2"), Buf("jones"), Buf("flag"),
                Buf("weight_vector"), Buf("observed_vis"), Buf("G_term"),
                Buf("model_vis"), Buf("X2_grad")>>,
     stream |-> stream,
     launch_params |-> "SersicChiSquaredGradient.launch_params"]

(* The launch of lines 57-62 as the device receives it *)
KernelOp(s, stream, seq) ==
    [kind |-> "kernel", args |-> SersicCall(s, stream).args,
     stream |-> stream, seq |-> seq]

(* execute(solver, stream), lines 51-62: the launch is enqueued on stream *)
SersicExecute(s, stream) ==
    /\ Issued < MaxOps
    /\ last_call' = Call("SersicChiSquaredGradient", "execute", s)
    /\ raised' = "none"
    /\ calls' = <<SersicCall(s, stream)>>
    /\ writes' = {}
    /\ pending' = [pending EXCEPT ![stream] =
                      Append(@, KernelOp(s, stream, Issued + 1))]
    /\ UNCHANGED <<slvr, presets, node, threads, shared, B_sqrt, completed,
                   snap, op_ph>>

----------------------------------------------------------------------------
(* tensorflow_mock_analyser: get_tf_placeholders and _inspect_tf_op_call   *)

(* None *)
None == <<"None">>

(* tf.as_dtype(t): the DType object of a type enum; .name is its name *)
as_dtype(t) == [name |-> t]

RECURSIVE MapDTypes(_)
MapDTypes(types) ==
    IF Len(types) = 0 THEN <<>>
    ELSE <<as_dtype(Head(types))>> \o MapDTypes(Tail(types))

(* Schema texts are token sequences; a dimension is any token that is not *)
(* punctuation or white space.                                            *)
IsDim(tok) == tok \notin {"(", ")", ",", " "}

(* parse_shape_schema(schema): the list of the dimensions the text names *)
parse_shape_schema(schema) == SelectSeq(schema, IsDim)

(* input_name + "_schema" *)
SchemaName(input_name) ==
    CASE input_name = "lm" -> "lm_schema"
      [] input_name = "stokes" -> "stokes_schema"
      [] input_name = "alpha" -> "alpha_schema"
      [] input_name = "values" -> "values_schema"

(* Arguments an operator is called with *)
NoneArg ==
    [kind |-> "None", var_type |-> "-", var_name |-> "-", dataset |-> "-"]

TensorArg ==
    [kind |-> "tensor", var_type |-> "-", var_name |-> "-", dataset |-> "-"]

(* mock.MagicMock(var_name=name, var_type=KnownVariable), line 266 *)
KnownArg ==
    [kind |-> "mock", var_type |-> "KnownVariable", var_name |-> "phase_out",
     dataset |-> "-"]

(* mock.MagicMock(var_name=key, var_type=UnknownVariable, dataset=name), *)
(* line 390                                                               *)
UnknownArg(name, ds) ==
    [kind |-> "mock", var_type |-> "UnknownVariable", var_name |-> name,
     dataset |-> ds]

ArgValues ==
    {NoneArg, TensorArg, KnownArg, UnknownArg("lm", "inputs"),
     UnknownArg("alpha", "inputs"), UnknownArg("lm", "point_inputs")}

(* Schema texts handed to an operator, or found as an attribute default *)
SchemaLM == <<"(", "source", ",", " ", "(l,m)", ")">>
SchemaLMTight == <<"(", "source", ",", "(l,m)", ")">>
SchemaRow == <<"(", "row", ")">>

SchemaArgs == {None, SchemaLMTight, SchemaRow}

NoAttr == [type |-> "-", allowed |-> <<>>, default |-> "-", s |-> None]

(* Operator definitions: function name, inputs in order, attributes, and *)
(* the schema keyword parameters the function accepts                    *)
PhaseOp ==
    [function |-> "phase",
     inputs |-> << [name |-> "lm", type |-> "", type_attr |-> "FT",
                    type_list_attr |-> ""] >>,
     attr |-> [FT |-> [NoAttr EXCEPT !.type = "type",
                           !.allowed = <<"float32", "float64">>,
                           !.default = "float32"],
               lm_schema |-> [NoAttr EXCEPT !.type = "string",
                                  !.s = SchemaLM]],
     schema_params |-> {"lm_schema"}]

BSqrtOp ==
    [function |-> "b_sqrt",
     inputs |-> << [name |-> "stokes", type |-> "", type_attr |-> "FT",
                    type_list_attr |-> ""],
                   [name |-> "alpha", type |-> "float32", type_attr |-> "",
                    type_list_attr |-> ""] >>,
     attr |-> [FT |-> [NoAttr EXCEPT !.type = "type",
                           !.allowed = <<"float32", "float64">>,
                           !.default = "float32"],
               alpha_schema |-> [NoAttr EXCEPT !.type = "int"]],
     schema_params |-> {}]

SumOp ==
    [function |-> "sum",
     inputs |-> << [name |-> "values", type |-> "", type_attr |-> "",
                    type_list_attr |-> "T"] >>,
     attr |-> [T |-> [NoAttr EXCEPT !.type = "list(type)"]],
     schema_params |-> {}]

op_defs == {PhaseOp, BSqrtOp, SumOp}

(* inspect.getcallargs: every parameter of the function bound to a value *)
CallArgs(op_def) ==
    {[args |-> a, schemas |-> sc] :
        a \in [{op_def.inputs[i].name : i \in 1..Len(op_def.inputs)}
                  -> ArgValues],
        sc \in [op_def.schema_params -> SchemaArgs]}

(* dtype, type_name and allowed of lines 94-112 *)
TypeInfo(op_def, input_def) ==
    IF input_def.type # ""
    THEN [raised |-> "none",
          default |-> as_dtype(input_def.type),
          default_type_name |-> as_dtype(input_def.type).name,
          allowed_types |-> <<as_dtype(input_def.type)>>]
    ELSE IF input_def.type_attr # ""
    THEN [raised |-> "none",
          default |-> as_dtype(op_def.attr[input_def.type_attr].default),
          default_type_name |-> input_def.type_attr,
          allowed_types |->
              MapDTypes(op_def.attr[input_def.type_attr].allowed)]
    ELSE IF input_def.type_list_attr # ""
    THEN [raised |-> "ValueError", default |-> None,
          default_type_name |-> "-", allowed_types |-> <<>>]
    ELSE [raised |-> "TypeError", default |-> None,
          default_type_name |-> "-", allowed_types |-> <<>>]

(* schema of lines 124-142: the call's keyword, else a string attribute's *)
(* default, else None                                                     *)
SchemaOf(op_def, call_args, input_name) ==
    LET schema_name == SchemaName(input_name)
        given == DictGet(call_args.schemas, schema_name, None)
    IN  IF given # None THEN given
        ELSE IF schema_name \in DOMAIN op_def.attr
                /\ op_def.attr[schema_name].type = "string"
        THEN op_def.attr[schema_name].s
        ELSE None

(* arg_ph_info of lines 114-145 *)
ArgPhInfo(op_def, call_args, input_def, arg) ==
    LET ti == TypeInfo(op_def, input_def)
        info == [dataset |-> arg.dataset,
                 ops |-> {op_def.function},
                 allowed_types |-> ti.allowed_types,
                 default_type_name |-> ti.default_type_name,
                 default |-> ti.default]
        schema == SchemaOf(op_def, call_args, input_def.name)
    IN  IF schema # None
        THEN DictPut(info, "schema", parse_shape_schema(schema))
        ELSE info

(* The loop of lines 68-148 from input i on, ph_info built so far *)
RECURSIVE PlaceholdersFrom(_, _, _, _)
PlaceholdersFrom(op_def, call_args, i, ph_info) ==
    IF i > Len(op_def.inputs)
    THEN [raised |-> "none", ph_info |-> ph_info]
    ELSE LET input_def == op_def.inputs[i]
             arg == call_args.args[input_def.name]
         IN  IF arg.kind = "None"
             THEN [raised |-> "ValueError", ph_info |-> EmptyDict]
             ELSE IF arg.kind # "mock" \/ arg.var_type # "UnknownVariable"
             THEN PlaceholdersFrom(op_def, call_args, i + 1, ph_info)
             ELSE IF TypeInfo(op_def, input_def).raised # "none"
             THEN [raised |-> TypeInfo(op_def, input_def).raised,
                   ph_info |-> EmptyDict]
             ELSE PlaceholdersFrom(op_def, call_args, i + 1,
                      DictPut(ph_info, arg.var_name,
                              ArgPhInfo(op_def, call_args, input_def, arg)))

get_tf_placeholders(op_def, call_args) ==
    PlaceholdersFrom(op_def, call_args, 1, EmptyDict)

(* The schema step taking every new schema, checking nothing *)
MergeSchemaOverwrite(old, new) ==
    IF DictGet(new, "schema", None) # None
    THEN [raised |-> "none", old |-> DictPut(old, "schema", new.schema)]
    ELSE [raised |-> "none", old |-> old]

(* Lines 248-260: the entry `old` after the schema of `new` was looked at *)
MergeSchema(old, new) ==
    LET new_schema == DictGet(new, "schema", None)
        old_schema == DictGet(old, "schema", None)
    IN  IF old_schema = None /\ new_schema # None
        THEN [raised |-> "none", old |-> DictPut(old, "schema", new_schema)]
        ELSE IF new_schema = None
        THEN [raised |-> "none", old |-> old]
        ELSE IF new_schema # old_schema
        THEN [raised |-> "ValueError", old |-> old]
        ELSE [raised |-> "none", old |-> old]

(* One pass of the loop body, lines 231-263, for the item (k, new_item) *)
IntegrateOne(table, k, new_item) ==
    LET ds == new_item.dataset
        new == DictPop(new_item, "dataset")
        table1 == IF ds \in DOMAIN table THEN table
                  ELSE DictPut(table, ds, EmptyDict)
    IN  IF k \notin DOMAIN table1[ds]
        THEN [raised |-> "none",
              table |-> DictPut(table1, ds, DictPut(table1[ds], k, new))]
        ELSE LET old == table1[ds][k]
                 merged == MergeSchema(old, new)
             IN  IF \E attr \in {"allowed_types", "default",
                                 "default_type_name"} : new[attr] # old[attr]
                 THEN [raised |-> "ValueError", table |-> table1]
                 ELSE IF merged.raised # "none"
                 THEN [raised |-> merged.raised, table |-> table1]
                 ELSE [raised |-> "none",
                       table |-> DictPut(table1, ds,
                           DictPut(table1[ds], k,
                               DictSet(merged.old, "ops",
                                       merged.old.ops \cup new.ops)))]

(* The loop of lines 230-263 over the items in the order `order`; a raise *)
(* ends it and keeps what the earlier passes did to the table.            *)
RECURSIVE Integrate(_, _, _)
Integrate(table, missing_ph, order) ==
    IF Len(order) = 0 THEN [raised |-> "none", table |-> table]
    ELSE LET r == IntegrateOne(table, Head(order), missing_ph[Head(order)])
         IN  IF r.raised # "none" THEN r
             ELSE Integrate(r.table, missing_ph, Tail(order))

(* The orders in which a dict's items may be iterated *)
ItemOrders(D) ==
    {o \in [1..Cardinality(DOMAIN D) -> DOMAIN D] :
        \A i, j \in DOMAIN o : o[i] = o[j] => i = j}

(* What the inspected call asked for *)
Inspected(op_def, got) ==
    [function |-> op_def.function, early |-> got.raised,
     missing_ph |-> got.ph_info]

(* _inspect_tf_op_call with __op_def__ = op_def and                      *)
(* __op_placeholders__ = the shared placeholders table, lines 197-267     *)
InspectTfOpCall(op_def, call_args) ==
    LET got == get_tf_placeholders(op_def, call_args)
    IN  /\ last_call' = Call("tensorflow_mock_analyser",
                             "_inspect_tf_op_call", Inspected(op_def, got))
        /\ IF got.raised # "none"
           THEN raised' = got.raised /\ UNCHANGED op_ph
           ELSE \E order \in ItemOrders(got.ph_info) :
                   LET r == Integrate(op_ph, got.ph_info, order)
                   IN  raised' = r.raised /\ op_ph' = r.table
        /\ UNCHANGED <<slvr, presets, node, calls, writes, device>>

----------------------------------------------------------------------------
(* Observer: records what a successful initialise produced, to compare a   *)
(* later call with it.  It changes nothing of the program's state.         *)
SnapshotInitialise ==
    /\ last_call.name = "initialise"
    /\ raised = "none"
    /\ snap' = [solver |-> slvr, launch_params |-> launch_params,
                source |-> kernel.module.source, since |-> 0]
    /\ snap' # snap
    /\ UNCHANGED <<slvr, presets, node, raised, last_call, calls, writes,
                   threads, shared, B_sqrt, queues, op_ph>>

----------------------------------------------------------------------------
(* Node lifecycle on small dimension sets *)

Next ==
    \/ \E s \in SmallSolvers, compiles \in BOOLEAN : Initialise(s, compiles)
    \/ shutdown
    \/ pre_execution
    \/ post_execution
    \/ \E stream \in Streams : Execute(stream)
    \/ SnapshotInitialise

Spec == Init /\ [][Next]_vars

----------------------------------------------------------------------------
(* The gradient node driven with solvers of every sersic_shape *)

InitSersic == slvr = Scenario1 /\ NodeFresh

NextSersic ==
    \E s \in SersicSolvers, stream \in Streams : SersicExecute(s, stream)

SpecSersic == InitSersic /\ [][NextSersic]_vars

----------------------------------------------------------------------------
(* The gradient node's uploads and launches on the device's streams *)

UploadSolvers == {[sersic_shape |-> <<>>], [sersic_shape |-> <<0>>]}

InitUpload == slvr = Scenario1 /\ NodeFresh

NextUpload ==
    \/ \E s \in UploadSolvers, stream \in GradientStreams :
          SersicPreExecution(s, stream)
    \/ \E s \in UploadSolvers, stream \in GradientStreams :
          SersicExecute(s, stream)
    \/ \E st \in GradientStreams : DeviceStep(st)

SpecUpload == InitUpload /\ [][NextUpload]_vars

----------------------------------------------------------------------------
(* analyse_tensorflow_function: one placeholders table, any sequence of   *)
(* operator calls                                                         *)

InitPlaceholders == slvr = Scenario1 /\ NodeFresh

NextPlaceholders ==
    \E op_def \in op_defs : \E call_args \in CallArgs(op_def) :
        InspectTfOpCall(op_def, call_args)

SpecPlaceholders == InitPlaceholders /\ [][NextPlaceholders]_vars

----------------------------------------------------------------------------
(* One node, one solver: dimension sets around the preset tile sizes *)

InitGeom == slvr \in WideSolvers /\ NodeFresh

NextGeom ==
    \/ \E compiles \in BOOLEAN : Initialise(slvr, compiles)
    \/ shutdown
    \/ pre_execution
    \/ post_execution

SpecGeom == InitGeom /\ [][NextGeom]_vars

----------------------------------------------------------------------------
(* One node, one solver, initialised and executed: dimension sets whose    *)
(* launch has more threads than elements                                    *)

LaunchSolvers ==
    SolverSet({[na |-> 14, nbl |-> 91]}, {1, 9}, 0..WideNtime, {1, 2})

InitLaunch == slvr \in LaunchSolvers /\ NodeFresh

NextLaunch ==
    \/ \E compiles \in BOOLEAN : Initialise(slvr, compiles)
    \/ \E stream \in Streams : Execute(stream)

SpecLaunch == InitLaunch /\ [][NextLaunch]_vars

----------------------------------------------------------------------------
(* The kernel thread by thread: any interleaving of the threads of a launch *)

ThreadCount(s) ==
    LET g == get_launch_params(4 * s.nchan, s,
                               KernelParams(s, FloatPreset, DoublePreset))
    IN  g.grid[1] * g.grid[2] * g.grid[3] *
        g.block[1] * g.block[2] * g.block[3]

(* Dimension sets whose launch is small enough to interleave exhaustively *)
KernelSolvers ==
    {s \in SolverSet({[na |-> 14, nbl |-> 91]}, {1, 2}, 1..MaxNtime, {1, 2}) :
        ThreadCount(s) <= MaxKernelThreads}

(* A node that initialise(slvr) has set up *)
NodeInitialised ==
    /\ FLOAT_PARAMS = FloatPreset
    /\ DOUBLE_PARAMS = DoublePreset
    /\ polchans = 4 * slvr.nchan
    /\ mod = SourceModule(
                Substitute(KERNEL_TEMPLATE,
                           KernelParams(slvr, FloatPreset, DoublePreset)),
                Regs(slvr, FloatPreset, DoublePreset))
    /\ kernel = get_function(mod, KernelName(slvr))
    /\ launch_params =
          get_launch_params(4 * slvr.nchan, slvr,
                            KernelParams(slvr, FloatPreset, DoublePreset))
    /\ raised = "none"
    /\ last_call = Call("RimeBSqrt", "initialise", slvr)
    /\ calls = <<>>
    /\ writes = {}
    /\ threads = Absent
    /\ shared = Absent
    /\ B_sqrt = <<>>
    /\ pending = NoPending
    /\ completed = <<>>
    /\ op_ph = EmptyDict
    /\ snap = Absent

InitKernel == slvr \in KernelSolvers /\ NodeInitialised

Consts == KernelConsts(kernel.module.source)

(* execute(solver, stream): the launch; the threads then run on their own. *)
(* One launch runs at a time.                                              *)
Launch(stream) ==
    /\ threads = Absent
    /\ kernel # Absent
    /\ launch_params # Absent
    /\ last_call' = Call("RimeBSqrt", "execute", slvr)
    /\ raised' = "none"
    /\ calls' = <<BSqrtCall(stream)>>
    /\ writes' = {}
    /\ threads' = [t \in Threads(launch_params) |-> "start"]
    /\ shared' = [b \in {BlockOf(t) : t \in Threads(launch_params)} |->
                    [x \in 0..(Consts.BLOCKDIMX - 1) |-> Unwritten]]
    /\ snap' = Later(snap)
    /\ UNCHANGED <<slvr, presets, node, B_sqrt, queues, op_ph>>

(* __syncthreads() passed regardless of the other threads *)
BarrierOpenNoWait(t) == TRUE

(* __syncthreads(), line 92: every thread of the block that has not        *)
(* returned has arrived                                                    *)
BarrierOpen(t) ==
    \A u \in DOMAIN threads :
        BlockOf(u) = BlockOf(t) => threads[u] # "start"

(* Lines 74-90 of one thread: the range guard and the load into freq[] *)
ThreadEnter(t) ==
    /\ threads[t] = "start"
    /\ IF OutOfRange(t, launch_params, Consts)
       THEN /\ threads' = [threads EXCEPT ![t] = "returned"]
            /\ UNCHANGED shared
       ELSE /\ threads' = [threads EXCEPT ![t] = "barrier"]
            /\ shared' = IF LoadsFreq(t)
                         THEN [shared EXCEPT ![BlockOf(t)][t[4]] =
                                  FreqLoaded(t, launch_params)]
                         ELSE shared
    /\ UNCHANGED <<slvr, presets, node, raised, last_call, calls, writes,
                   B_sqrt, queues, snap, op_ph>>

(* Lines 92-110 of one thread: past the barrier, compute and write *)
ThreadFinish(t) ==
    /\ threads[t] = "barrier"
    /\ BarrierOpen(t)
    /\ LET i == OutIndex(t, launch_params, Consts)
           v == OutValue(t, launch_params, Consts, shared[BlockOf(t)][t[4]])
       IN  B_sqrt' = [j \in (DOMAIN B_sqrt) \cup {i} |->
                         IF j = i THEN v ELSE B_sqrt[j]]
    /\ threads' = [threads EXCEPT ![t] = "done"]
    /\ UNCHANGED <<slvr, presets, node, raised, last_call, calls, writes,
                   shared, queues, snap, op_ph>>

(* The launch is complete when every thread has returned or finished *)
LaunchDone ==
    /\ threads # Absent
    /\ \A t \in DOMAIN threads : threads[t] \in {"returned", "done"}
    /\ threads' = Absent
    /\ shared' = Absent
    /\ UNCHANGED <<slvr, presets, node, raised, last_call, calls, writes,
                   B_sqrt, queues, snap, op_ph>>

Completed == threads = Absent /\ last_call.name = "execute"

(* Observer: records the output tensor of a completed launch *)
SnapshotOutput ==
    /\ Completed
    /\ snap' = [B_sqrt |-> B_sqrt, since |-> 0]
    /\ snap' # snap
    /\ UNCHANGED <<slvr, presets, node, raised, last_call, calls, writes,
                   threads, shared, B_sqrt, queues, op_ph>>

NextKernel ==
    \/ \E stream \in Streams : Launch(stream)
    \/ \E t \in Threads(launch_params) : threads # Absent /\ ThreadEnter(t)
    \/ \E t \in Threads(launch_params) : threads # Absent /\ ThreadFinish(t)
    \/ LaunchDone
    \/ SnapshotOutput

SpecKernel == InitKernel /\ [][NextKernel]_vars

----------------------------------------------------------------------------
(* The kernel thread by thread on launches wider than the problem.  The   *)
(* threads of the focus columns and rows of the blocks that reach past    *)
(* the problem take their steps in any order; the other threads take      *)
(* theirs one at a time, all range guards before any of them passes its   *)
(* barrier: their steps touch cells of their own and the read-only freq[] *)
(* only, so they commute with one another.                                *)

(* ntime = 18 in double precision: two y blocks of 16, the second with    *)
(* two rows in range; nchan = 9: two x blocks of 32, the second with four *)
(* columns in range                                                       *)
OverLaunchSolvers ==
    {[na |-> 14, nbl |-> 91, nchan |-> 1, ntime |-> 18, nsrc |-> 1,
      is_float |-> FALSE],
     [na |-> 14, nbl |-> 91, nchan |-> 9, ntime |-> 1, nsrc |-> 1,
      is_float |-> TRUE]}

InitOverLaunch == slvr \in OverLaunchSolvers /\ NodeInitialised

(* threadIdx.x and threadIdx.y of the threads scheduled freely *)
FocusColumns == {0, 4}
FocusRows == {0, 1, 2}

Focus(t) ==
    /\ BlockOf(t) # <<0, 0, 0>>
    /\ t[4] \in FocusColumns
    /\ t[5] \in FocusRows

(* The threads outside the focus whose program counter is pc *)
Unfocused(pc) == {u \in DOMAIN threads : ~Focus(u) /\ threads[u] = pc}

(* The threads that may take their next step from pc *)
Runnable(pc) ==
    IF threads = Absent THEN {}
    ELSE {t \in DOMAIN threads : Focus(t)} \cup
         (IF Unfocused(pc) = {} \/ (pc = "barrier" /\ Unfocused("start") # {})
          THEN {}
          ELSE {CHOOSE u \in Unfocused(pc) : TRUE})

NextOverLaunch ==
    \/ \E stream \in Streams : Launch(stream)
    \/ \E t \in Runnable("start") : ThreadEnter(t)
    \/ \E t \in Runnable("barrier") : ThreadFinish(t)
    \/ LaunchDone

SpecOverLaunch == InitOverLaunch /\ [][NextOverLaunch]_vars

----------------------------------------------------------------------------
(* Properties of the launch geometry *)

(* Problem extent per axis: (4*nchan, ntime, nsrc) *)
Extent(s) == <<4 * s.nchan, s.ntime, s.nsrc>>

PositiveExtents(s) == \A i \in 1..3 : Extent(s)[i] > 0

(* Preset tile of the precision: 32x32x1 single, 32x16x1 double *)
PresetTile(s) == IF s.is_float = TRUE THEN <<32, 32, 1>> ELSE <<32, 16, 1>>

Min(a, b) == IF a < b THEN a ELSE b

(* The least q with q * b >= a, for a >= 0 and b > 0 *)
Ceiling(a, b) == CHOOSE q \in 0..a : q * b >= a /\ (q = 0 \/ (q - 1) * b < a)

(* C1: for positive extents and both precisions, the stored launch geometry *)
(* has grid[i] * block[i] >= extent[i] on every axis, and block[i] <=       *)
(* extent[i] on every axis whose extent is below the preset tile size.      *)
C1_GeometryCoversExtent ==
    (launch_params # Absent /\ PositiveExtents(slvr)) =>
        \A i \in 1..3 :
            /\ launch_params.grid[i] * launch_params.block[i] >= Extent(slvr)[i]
            /\ (Extent(slvr)[i] < PresetTile(slvr)[i]
                    => launch_params.block[i] <= Extent(slvr)[i])

(* a stored geometry with one axis narrowed and another over-launched *)
C1_Witness ==
    /\ launch_params # Absent
    /\ PositiveExtents(slvr)
    /\ Extent(slvr)[1] < PresetTile(slvr)[1]
    /\ launch_params.grid[2] * launch_params.block[2] > Extent(slvr)[2]

(* C2: for positive extents initialise stores block = (min(32, 4*nchan),   *)
(* min(P, ntime), min(1, nsrc)), P = 32 single and 16 double, and grid =   *)
(* the per-axis ceiling of extent / block; scenario 1 gives block          *)
(* (32,29,1) and grid (8,1,20).                                            *)
C2_GeometryFormula ==
    /\ (launch_params # Absent /\ PositiveExtents(slvr)) =>
          LET P == IF slvr.is_float = TRUE THEN 32 ELSE 16
              b == <<Min(32, 4 * slvr.nchan), Min(P, slvr.ntime),
                     Min(1, slvr.nsrc)>>
          IN  /\ launch_params.block = b
              /\ launch_params.grid =
                    <<Ceiling(4 * slvr.nchan, b[1]), Ceiling(slvr.ntime, b[2]),
                      Ceiling(slvr.nsrc, b[3])>>
    /\ (launch_params # Absent /\ slvr = Scenario1) =>
          launch_params = [block |-> <<32, 29, 1>>, grid |-> <<8, 1, 20>>]
    /\ (last_call.name = "initialise" /\ raised = "none") =>
          launch_params # Absent

C2_Witness ==
    /\ slvr = Scenario1
    /\ last_call.name = "initialise"
    /\ raised = "none"
    /\ launch_params # Absent

C2_WitnessDouble ==
    /\ slvr.is_float = FALSE
    /\ slvr.ntime > 16
    /\ launch_params # Absent

(* C3: with num_sources = 0 or num_timesteps = 0 the launch-geometry       *)
(* computation of initialise completes and every grid dimension is >= 1.   *)
C3_ZeroExtentGeometry ==
    (/\ last_call.name = "initialise"
     /\ raised \notin {"KeyError", "CompileError"}
     /\ (slvr.nsrc = 0 \/ slvr.ntime = 0)) =>
        /\ raised = "none"
        /\ launch_params # Absent
        /\ \A i \in 1..3 : launch_params.grid[i] >= 1

(* C10: the #define constants read back from the rendered kernel text are  *)
(* the values of the substituted mapping, and NPOL is 4.                   *)
DefineOf(key) ==
    CASE key = "na" -> "NA"
      [] key = "nbl" -> "NBL"
      [] key = "nchan" -> "NCHAN"
      [] key = "ntime" -> "NTIME"
      [] key = "nsrc" -> "NSRC"
      [] OTHER -> key

C10_TemplateRoundTrip ==
    kernel # Absent =>
        LET D == KernelParams(slvr, FLOAT_PARAMS, DOUBLE_PARAMS)
            text == kernel.module.source
        IN  /\ \A key \in DimKeys \cup BlockKeys :
                  DefineValue(text, DefineOf(key)) = D[key]
            /\ DefineValue(text, "NPOL") = 4
            /\ DefineValue(text, "NA") = slvr.na
            /\ DefineValue(text, "NBL") = slvr.nbl
            /\ DefineValue(text, "NCHAN") = slvr.nchan
            /\ DefineValue(text, "NTIME") = slvr.ntime
            /\ DefineValue(text, "NSRC") = slvr.nsrc

(* a rendered text holding one-digit and two-digit values *)
C10_Witness ==
    /\ kernel # Absent
    /\ slvr.nbl = 91
    /\ slvr.ntime = 30
    /\ slvr.nsrc = 2
    /\ DefineValue(kernel.module.source, "BLOCKDIMY") = 16

(* The kernel parameters narrowed from one given preset *)
ParamsOf(s, preset) ==
    LET D1 == DictUpdate(get_properties(s), preset)
        D2 == Narrow(D1, "BLOCKDIMX", 4 * s.nchan)
        D3 == Narrow(D2, "BLOCKDIMY", s.ntime)
    IN  Narrow(D3, "BLOCKDIMZ", s.nsrc)

(* What initialise installed is the choice of one precision throughout *)
InstalledFrom(preset, regs, kname) ==
    /\ mod.source = Substitute(KERNEL_TEMPLATE, ParamsOf(slvr, preset))
    /\ mod.maxrregcount = Str(regs)
    /\ preset.maxregs = regs
    /\ kernel = get_function(mod, kname)
    /\ launch_params # Absent =>
          launch_params.block = <<ParamsOf(slvr, preset)["BLOCKDIMX"],
                                  ParamsOf(slvr, preset)["BLOCKDIMY"],
                                  ParamsOf(slvr, preset)["BLOCKDIMZ"]>>

(* C12: for both values of is_float(), the kernel text's tile sizes, the  *)
(* register limit and the entry point initialise installs are all three   *)
(* the single-precision choice (FLOAT_PARAMS, 32, ..._float) when         *)
(* is_float() holds and all three the double-precision choice             *)
(* (DOUBLE_PARAMS, 48, ..._double) when it does not; never a mixture.     *)
C12_ConsistentPrecision ==
    kernel # Absent =>
        IF slvr.is_float = TRUE
        THEN InstalledFrom(FLOAT_PARAMS, 32, "rime_jones_B_sqrt_float")
        ELSE InstalledFrom(DOUBLE_PARAMS, 48, "rime_jones_B_sqrt_double")

(* a single-precision node on dimensions where the two presets differ *)
C12_Witness ==
    /\ kernel # Absent
    /\ launch_params # Absent
    /\ slvr.is_float = TRUE
    /\ slvr.ntime = 33
    /\ kernel.name = "rime_jones_B_sqrt_float"
    /\ mod.maxrregcount = <<"3", "2">>
    /\ launch_params.block[2] = 32

----------------------------------------------------------------------------
(* Properties of the node lifecycle *)

(* C4: an initialise call with the dimension set and precision of an       *)
(* earlier initialise call yields the launch geometry and the rendered     *)
(* kernel text of that earlier call, whatever calls came in between.       *)
C4_InitialiseRepeatable ==
    (/\ last_call.name = "initialise"
     /\ raised = "none"
     /\ snap # Absent
     /\ snap.since > 0
     /\ snap.solver = slvr) =>
        /\ launch_params = snap.launch_params
        /\ kernel.module.source = snap.source

(* a repeated call, with at least one other initialise call in between *)
C4_Witness ==
    /\ last_call.name = "initialise"
    /\ raised = "none"
    /\ snap # Absent
    /\ snap.since >= 2
    /\ snap.solver = slvr
    /\ slvr.ntime = 2
    /\ launch_params = snap.launch_params

(* C7: a failing initialise installs nothing: the kernel handle and the    *)
(* launch geometry are both as before the call, or both absent.            *)
C7_FailedInitialiseInstallsNothing ==
    [][(last_call'.name = "initialise" /\ raised' # "none") =>
          \/ (kernel' = kernel /\ launch_params' = launch_params)
          \/ (kernel' = Absent /\ launch_params' = Absent)]_vars

(* C8 as stated: after shutdown the node holds no kernel *)
C8_ShutdownReleasesKernel ==
    last_call.name = "shutdown" => kernel = Absent

(* C8 amended: shutdown leaves the node as it was, kernel handle and       *)
(* launch geometry included, so a second shutdown changes nothing either.  *)
C8_ShutdownKeepsNode ==
    [][last_call'.name = "shutdown" =>
          UNCHANGED <<polchans, mod, kernel, launch_params, FLOAT_PARAMS,
                      DOUBLE_PARAMS>>]_vars

C8_Witness ==
    /\ last_call.name = "shutdown"
    /\ kernel # Absent
    /\ launch_params # Absent

----------------------------------------------------------------------------
(* Properties of the gradient node's launch *)

AfterSersicExecute ==
    last_call.node = "SersicChiSquaredGradient" /\ last_call.name = "execute"

ZeroElements(shape) == \E i \in 1..Len(shape) : shape[i] = 0

(* C6: execute launches the kernel once; its shape argument is the null    *)
(* sentinel exactly when sersic_shape has zero elements and the            *)
(* sersic_shape buffer otherwise; the other arguments and the geometry do  *)
(* not depend on the shape.                                                *)
C6_NullSentinel ==
    AfterSersicExecute =>
        /\ Len(calls) = 1
        /\ (calls[1].args[2] = NullPtr
                <=> ZeroElements(last_call.solver.sersic_shape))
        /\ (calls[1].args[2] # NullPtr
                => calls[1].args[2] = Buf("sersic_shape"))
        /\ Len(calls[1].args) = 12
        /\ \A i \in (1..12) \ {2} :
              calls[1].args[i] = SersicCall([sersic_shape |-> <<>>],
                                            calls[1].stream).args[i]
        /\ calls[1].kernel = "SersicChiSquaredGradient.kernel"
        /\ calls[1].launch_params = "SersicChiSquaredGradient.launch_params"

(* an empty tensor whose leading dimension is not the zero one *)
C6_Witness ==
    /\ AfterSersicExecute
    /\ last_call.solver.sersic_shape = <<3, 0>>
    /\ calls[1].args[2] = NullPtr

AfterSersicPreExecution ==
    /\ last_call.node = "SersicChiSquaredGradient"
    /\ last_call.name = "pre_execution"

IsUpload(op) == op.kind \in {"memcpy_htod", "memcpy_htod_async"}

(* Position of op in an order of execution, 0 if not executed *)
ExecutedAt(log, op) ==
    IF \E i \in 1..Len(log) : log[i] = op
    THEN CHOOSE i \in 1..Len(log) : log[i] = op
    ELSE 0

(* C11: a pre_execution call makes the parent's pre_execution call and    *)
(* then hands the device exactly one operation, the copy of the solver's  *)
(* constant data to rime_const_data[0]: with a stream, the asynchronous   *)
(* copy enqueued on that stream; without, the blocking copy, executed     *)
(* when the call has returned.  The device executes a kernel launched on  *)
(* a stream only after every upload issued before it on the same stream.  *)
C11_UploadBeforeKernel ==
    [][/\ (AfterSersicPreExecution' /\ calls' # calls) =>
             /\ Len(calls') = 2
             /\ calls'[1] = SuperPreExecution(last_call'.solver,
                                              calls'[1].args[2])
             /\ calls'[2] \notin AllOps
             /\ AllOps' = AllOps \cup {calls'[2]}
             /\ IsUpload(calls'[2])
             /\ calls'[2].args = <<RimeConstData, ConstData(last_call'.solver)>>
             /\ IF calls'[1].args[2] # "None"
                THEN /\ calls'[2].kind = "memcpy_htod_async"
                     /\ calls'[2].stream = calls'[1].args[2]
                     /\ ExecutedAt(completed', calls'[2]) = 0
                ELSE /\ calls'[2].kind = "memcpy_htod"
                     /\ ExecutedAt(completed', calls'[2]) > 0
       /\ \A k \in AllOps', u \in AllOps' :
             (/\ k.kind = "kernel"
              /\ IsUpload(u)
              /\ u.stream = k.stream
              /\ u.seq < k.seq
              /\ ExecutedAt(completed', k) > 0) =>
                 (ExecutedAt(completed', u) > 0 /\ ExecutedAt(completed', u) < ExecutedAt(completed', k))
      ]_vars

(* an upload and then a launch on one stream, both executed, the launch   *)
(* after the upload, although a launch issued later on another stream was *)
(* executed before both                                                   *)
C11_Witness ==
    /\ Len(completed) = 3
    /\ completed[1].kind = "kernel"
    /\ completed[1].stream = "other_stream"
    /\ completed[1].seq = 3
    /\ completed[2].kind = "memcpy_htod_async"
    /\ completed[2].stream = "stream"
    /\ completed[2].seq = 1
    /\ completed[3].kind = "kernel"
    /\ completed[3].stream = "stream"
    /\ completed[3].seq = 2

----------------------------------------------------------------------------
(* Properties of the placeholders table *)

TypeAttrs == {"allowed_types", "default", "default_type_name"}

Registered(table, ds, k) == ds \in DOMAIN table /\ k \in DOMAIN table[ds]

(* The requested item disagrees with the registered entry *)
Disagrees(old, new) ==
    \/ \E attr \in TypeAttrs : new[attr] # old[attr]
    \/ /\ "schema" \in DOMAIN old
       /\ "schema" \in DOMAIN new
       /\ new.schema # old.schema

(* C13: over any sequence of _inspect_tf_op_call calls on one table, a    *)
(* registered entry stays registered with its allowed_types, default and  *)
(* default_type_name, a schema it has stays as it is, and its ops set     *)
(* only grows; a call whose item for a registered entry disagrees in a    *)
(* type attribute, or in schema with the entry's schema, raises           *)
(* ValueError and leaves that entry as it was.                            *)
C13_PlaceholdersStable ==
    [][/\ \A ds \in DOMAIN op_ph : \A k \in DOMAIN op_ph[ds] :
             /\ Registered(op_ph', ds, k)
             /\ \A attr \in TypeAttrs :
                   op_ph'[ds][k][attr] = op_ph[ds][k][attr]
             /\ "schema" \in DOMAIN op_ph[ds][k] =>
                   /\ "schema" \in DOMAIN op_ph'[ds][k]
                   /\ op_ph'[ds][k].schema = op_ph[ds][k].schema
             /\ op_ph[ds][k].ops \subseteq op_ph'[ds][k].ops
       /\ last_call'.name = "_inspect_tf_op_call" =>
             \A k \in DOMAIN last_call'.solver.missing_ph :
                LET new == last_call'.solver.missing_ph[k]
                    ds == new.dataset
                IN  (Registered(op_ph, ds, k)
                        /\ Disagrees(op_ph[ds][k], new)) =>
                       /\ raised' = "ValueError"
                       /\ op_ph'[ds][k] = op_ph[ds][k]
      ]_vars

(* a call rejected for its type attributes, on a table holding an entry  *)
(* two operators asked for and whose schema a later call supplied        *)
C13_Witness ==
    /\ last_call.name = "_inspect_tf_op_call"
    /\ raised = "ValueError"
    /\ last_call.solver.function = "b_sqrt"
    /\ "alpha" \in DOMAIN last_call.solver.missing_ph
    /\ "lm" \in DOMAIN last_call.solver.missing_ph
    /\ Registered(op_ph, "inputs", "alpha")
    /\ op_ph["inputs"]["alpha"].default_type_name = "FT"
    /\ last_call.solver.missing_ph["alpha"].default_type_name = "float32"
    /\ Registered(op_ph, "inputs", "lm")
    /\ op_ph["inputs"]["lm"].ops = {"phase", "b_sqrt"}
    /\ op_ph["inputs"]["lm"].schema = <<"source", "(l,m)">>
    /\ Registered(op_ph, "point_inputs", "lm")
    /\ "schema" \notin DOMAIN op_ph["point_inputs"]["lm"]

----------------------------------------------------------------------------
(* Properties of one B-sqrt launch *)

AfterLaunch == last_call.name = "execute" /\ raised = "none"

(* C5: in a launch, no thread outside (NSRC, NTIME, 4*NCHAN) writes, every *)
(* in-range triple's element is written by exactly one thread, and no      *)
(* write falls outside [0, NSRC*NTIME*NPOLCHAN).                           *)
C5_GuardedWrites ==
    AfterLaunch =>
        LET g == calls[1].launch_params
            c == KernelConsts(calls[1].kernel.module.source)
            size == c.NSRC * c.NTIME * c.NPOLCHAN
        IN  /\ \A w \in writes :
                  /\ SRC(w.thread, g) < c.NSRC
                  /\ TIME(w.thread, g) < c.NTIME
                  /\ POLCHAN(w.thread, g) < 4 * c.NCHAN
                  /\ w.idx = (SRC(w.thread, g) * c.NTIME + TIME(w.thread, g))
                                * c.NPOLCHAN + POLCHAN(w.thread, g)
                  /\ w.idx \in 0..(size - 1)
            /\ {w.idx : w \in writes} = 0..(size - 1)
            /\ Cardinality(writes) = size

(* a launch over-launched on the x and on the y axis *)
C5_Witness ==
    /\ AfterLaunch
    /\ writes # {}
    /\ calls[1].launch_params.grid[1] * calls[1].launch_params.block[1]
          > 4 * slvr.nchan
    /\ calls[1].launch_params.grid[2] * calls[1].launch_params.block[2]
          > slvr.ntime
    /\ slvr.nsrc = 2

(* C14: under every geometry initialise stores, block.x is a multiple of *)
(* 4 and, for every thread past the range guard, threadIdx.x & 3 is      *)
(* POLCHAN mod 4, the alpha cell read is SRC*NTIME+TIME < NSRC*NTIME,    *)
(* the stokes cell read is (SRC*NTIME+TIME)*4+POL < NSRC*NTIME*4, and    *)
(* the frequency cell loaded is POLCHAN>>2 < NCHAN.                      *)
C14_ReadsInBounds ==
    AfterLaunch =>
        LET g == calls[1].launch_params
            c == KernelConsts(calls[1].kernel.module.source)
        IN  /\ g.block[1] % 4 = 0
            /\ \A w \in writes :
                  LET t == w.thread
                      i == SRC(t, g) * c.NTIME + TIME(t, g)
                  IN  /\ POL(t) = POLCHAN(t, g) % 4
                      /\ w.val.alpha = <<"alpha", i>>
                      /\ i < c.NSRC * c.NTIME
                      /\ w.val.stokes = <<"stokes", i * 4 + POL(t)>>
                      /\ w.val.stokes[2] < c.NSRC * c.NTIME * 4
                      /\ w.val.freq[1] = "frequency" => w.val.freq[2] < c.NCHAN
                      /\ LoadsFreq(t) =>
                            /\ FreqLoaded(t, g)[2] = POLCHAN(t, g) \div 4
                            /\ FreqLoaded(t, g)[2] < c.NCHAN

(* a thread of the second x block, in the last channel, past the guard  *)
(* of a launch wider than the problem on the x and y axes               *)
C14_Witness ==
    /\ AfterLaunch
    /\ slvr.nchan = 9
    /\ slvr.ntime = 33
    /\ calls[1].launch_params.grid[1] = 2
    /\ \E w \in writes :
          /\ w.thread[1] = 1
          /\ POLCHAN(w.thread, calls[1].launch_params) = 35
          /\ POL(w.thread) = 3
          /\ w.val.freq = <<"frequency", 8>>
          /\ TIME(w.thread, calls[1].launch_params) = 32

----------------------------------------------------------------------------
(* Properties of the kernel under every interleaving *)

(* C9: a run of the stage leaves the output tensor an earlier run with the *)
(* same inputs, dimension set and precision left, whatever the order in    *)
(* which the threads of either run were scheduled: it is the output of the *)
(* kernel run phase by phase.                                              *)
C9_Deterministic ==
    /\ (Completed /\ snap # Absent /\ snap.since > 0) =>
          B_sqrt = snap.B_sqrt
    /\ Completed =>
          B_sqrt = [i \in {w.idx : w \in RunKernel(launch_params, Consts)} |->
                      (CHOOSE w \in RunKernel(launch_params, Consts) :
                          w.idx = i).val]

(* a second run completed after a recorded first run, several blocks *)
C9_Witness ==
    /\ Completed
    /\ snap # Absent
    /\ snap.since > 0
    /\ B_sqrt # <<>>
    /\ launch_params.grid[3] = 2

(* The thread of t's block and x column with threadIdx.y = threadIdx.z = 0 *)
LoaderOf(t) == <<t[1], t[2], t[3], t[4], 0, 0>>

(* C15: in every block, with the out-of-range threads returning before   *)
(* the barrier, a thread past the range guard reads from freq[threadIdx.x] *)
(* after the barrier what the thread of its block and column with        *)
(* threadIdx.y = threadIdx.z = 0, itself past the guard, wrote there     *)
(* before the barrier: frequency[POLCHAN >> 2] for the reader's POLCHAN,  *)
(* never an unwritten slot, in whatever order the threads run.           *)
C15_ReadsWrittenSlot ==
    [][(threads # Absent /\ threads' # Absent) =>
          \A t \in DOMAIN threads :
             (threads[t] = "barrier" /\ threads'[t] = "done") =>
                /\ ~OutOfRange(t, launch_params, Consts)
                /\ ~OutOfRange(LoaderOf(t), launch_params, Consts)
                /\ threads[LoaderOf(t)] \in {"barrier", "done"}
                /\ shared[BlockOf(t)][t[4]] # Unwritten
                /\ shared[BlockOf(t)][t[4]] =
                      FreqLoaded(LoaderOf(t), launch_params)
                /\ shared[BlockOf(t)][t[4]] =
                      <<"frequency", POLCHAN(t, launch_params) \div 4>>
                /\ B_sqrt'[OutIndex(t, launch_params, Consts)].freq =
                      <<"frequency", POLCHAN(t, launch_params) \div 4>>
      ]_vars

(* in the second y block, the row-1 thread of column 0 has read its slot *)
(* and finished, the row-2 thread of the same column returned at the     *)
(* guard, and another thread of the block has not yet passed the barrier *)
C15_Witness ==
    /\ threads # Absent
    /\ slvr.ntime = 18
    /\ launch_params.grid[2] = 2
    /\ threads[<<0, 1, 0, 0, 1, 0>>] = "done"
    /\ threads[<<0, 1, 0, 0, 2, 0>>] = "returned"
    /\ threads[<<0, 1, 0, 0, 0, 0>>] = "barrier"
    /\ \E i \in DOMAIN B_sqrt : B_sqrt[i].freq = <<"frequency", 0>>

====
